---- MODULE Spec2Model ----
(***************************************************************************)
(* Model of the image heuristic scoring engine (class ImageAnalyzer of     *)
(* src/src/App.tsx): the metadata detector, the final computations of the  *)
(* pixel detectors, the aggregator of analyzeImage and the heatmap         *)
(* synthesizer.                                                            *)
(*                                                                         *)
(* JavaScript numbers are IEEE-754 doubles.  The scores of the engine are  *)
(* sums of products with the constants 0.2, 0.3, 0.35 and 0.7, none of     *)
(* which is a double, followed by Math.round, so the arithmetic is         *)
(* modelled with its rounding errors (section "Number arithmetic").        *)
(*                                                                         *)
(* Strings that the code inspects (file name, MIME type) are sequences of  *)
(* one-character strings; strings that it only produces are TLA+ strings   *)
(* or sequences of string segments.                                        *)
(***************************************************************************)
EXTENDS Integers, Sequences, FiniteSets, TLC

VARIABLES
    pc,              \* position of the analysis call
    file,            \* the File handed to analyzeImage
    imageData,       \* the decoded ImageData (width, height, pixels)
    pixelAnomalies,  \* result of analyzePixelAnomalies
    lightingShadows, \* result of analyzeLightingAndShadows
    aiArtifacts,     \* result of detectAIArtifacts
    metadata,        \* result of analyzeMetadata
    semanticLogic,   \* result of analyzeSemanticLogic
    result,          \* the AnalysisResult returned by analyzeImage
    lastCall,        \* file facts, metadata flags and severity of the previous call
    app,             \* the App component: its state, its calls and its pending callbacks
    counts           \* the counters of a detector when its sampling loops end

vars == <<pc, file, imageData, pixelAnomalies, lightingShadows, aiArtifacts,
          metadata, semanticLogic, result, lastCall, app, counts>>

None == [none |-> TRUE]

Min(a, b) == IF a < b THEN a ELSE b
Max(a, b) == IF a > b THEN a ELSE b

(***************************************************************************)
(* Strings                                                                 *)
(***************************************************************************)
UpperCase == <<"A","B","C","D","E","F","G","H","I","J","K","L","M",
               "N","O","P","Q","R","S","T","U","V","W","X","Y","Z">>
LowerCase == <<"a","b","c","d","e","f","g","h","i","j","k","l","m",
               "n","o","p","q","r","s","t","u","v","w","x","y","z">>

\* String.prototype.toLowerCase on one character
LowerChar(c) ==
    IF \E i \in 1..26 : UpperCase[i] = c
    THEN LowerCase[CHOOSE i \in 1..26 : UpperCase[i] = c]
    ELSE c

toLowerCase(s) == [i \in 1..Len(s) |-> LowerChar(s[i])]

\* String.prototype.includes
includes(s, sub) ==
    \E i \in 1..(Len(s) - Len(sub) + 1) : SubSeq(s, i, i + Len(sub) - 1) = sub

\* String.prototype.startsWith
startsWith(s, prefix) ==
    Len(s) >= Len(prefix) /\ SubSeq(s, 1, Len(prefix)) = prefix

\* Array.prototype.join over string segments
RECURSIVE join(_, _)
join(parts, sep) ==
    IF Len(parts) = 0 THEN <<>>
    ELSE IF Len(parts) = 1 THEN <<parts[1]>>
    ELSE <<parts[1], sep>> \o join(Tail(parts), sep)

S_imagePrefix == <<"i","m","a","g","e","/">>
S_screenshot  == <<"s","c","r","e","e","n","s","h","o","t">>
S_screen_shot == <<"s","c","r","e","e","n"," ","s","h","o","t">>
S_ai          == <<"a","i">>
S_generated   == <<"g","e","n","e","r","a","t","e","d">>
S_midjourney  == <<"m","i","d","j","o","u","r","n","e","y">>
S_dalle       == <<"d","a","l","l","e">>

(***************************************************************************)
(* Metadata Plausibility Detector                                          *)
(***************************************************************************)
SmallFileSize == 1000
LargeFileSize == 50 * 1024 * 1024

\* flags.push(m) when the rule's condition holds
PushIf(cond, m) == IF cond THEN <<m>> ELSE <<>>

\* file.type && !file.type.startsWith('image/')
InvalidMimeType_Includes(f) == f.type # <<>> /\ ~includes(f.type, S_imagePrefix)
InvalidMimeType(f) == f.type # <<>> /\ ~startsWith(f.type, S_imagePrefix)

\* file.size < 1000
SmallFile_Inclusive(f) == f.size <= SmallFileSize
SmallFile(f) == f.size < SmallFileSize

\* file.size > 50 * 1024 * 1024
LargeFile(f) == f.size > LargeFileSize

\* !file.lastModified
MissingTimestamp(f) == f.lastModified = 0

ScreenshotName(f) ==
    LET fileName == toLowerCase(f.name)
    IN  includes(fileName, S_screenshot) \/ includes(fileName, S_screen_shot)

AIFileName_CaseSensitive(f) ==
    LET fileName == f.name
    IN  \/ includes(fileName, S_ai)
        \/ includes(fileName, S_generated)
        \/ includes(fileName, S_midjourney)
        \/ includes(fileName, S_dalle)
AIFileName(f) ==
    LET fileName == toLowerCase(f.name)
    IN  \/ includes(fileName, S_ai)
        \/ includes(fileName, S_generated)
        \/ includes(fileName, S_midjourney)
        \/ includes(fileName, S_dalle)

\* the six conditional pushes, applied to the array flags
PushFlags(flags, f) ==
    flags
    \o PushIf(InvalidMimeType(f), "Invalid MIME type")
    \o PushIf(SmallFile(f), "Suspiciously small file size")
    \o PushIf(LargeFile(f), "Unusually large file size")
    \o PushIf(MissingTimestamp(f), "Missing modification timestamp")
    \o PushIf(ScreenshotName(f), "Screenshot detected")
    \o PushIf(AIFileName(f), "AI-related filename")

MetadataResult(flags) ==
    LET authentic == Len(flags) = 0
    IN  [authentic   |-> authentic,
         flags       |-> flags,
         description |-> IF authentic
                         THEN <<"File metadata appears legitimate">>
                         ELSE <<"Metadata concerns: ">> \o join(flags, ", ")]

\* the array flags outlives the call: it still holds the previous call's flags
analyzeMetadata_SharedFlags(f) ==
    MetadataResult(PushFlags(IF lastCall = <<>> THEN <<>> ELSE lastCall[1].flags, f))
analyzeMetadata(f) == MetadataResult(PushFlags(<<>>, f))

(***************************************************************************)
(* Number arithmetic                                                       *)
(*                                                                         *)
(* A double x is held exactly as [m |-> j, d |-> eps] in a number system   *)
(* with odd part o:  x = j / (8*o) + eps * U,  U = 1 / (10 * o * 2^64).    *)
(* j is the decimal value the code means (thousandths for o = 125) and eps *)
(* is the accumulated binary rounding error.  Fl rounds an exact value to  *)
(* the nearest double, ties to even, as every JavaScript operator does.    *)
(***************************************************************************)
Dec == 125   \* number system of the scores: j counts thousandths

\* 2^k mod n, for n < 2^15, in 32-bit steps
RECURSIVE Pow2Mod(_, _)
Pow2Mod(k, n) ==
    IF k <= 30 THEN (2^k) % n ELSE ((2^30 % n) * Pow2Mod(k - 30, n)) % n

\* the exponent e with 2^e <= j/(8*o) < 2^(e+1)
Binade(o, j) ==
    CHOOSE e \in -10..10 :
        IF e >= 0 THEN 8 * o * 2^e <= j /\ j < 16 * o * 2^e
                  ELSE 8 * o <= j * 2^(-e) /\ j * 2^(-e) < 16 * o

IsPow2(o, j, e) == IF e >= 0 THEN j = 8 * o * 2^e ELSE j * 2^(-e) = 8 * o

\* The double nearest to j/(8*o) + eps*U (+ an amount below U of sign hint)
Fl(o, j, eps, hint) ==
    IF j = 0 THEN [m |-> 0, d |-> 0]
    ELSE
    LET e0   == Binade(o, j)
        e    == IF IsPow2(o, j, e0) /\ (eps < 0 \/ (eps = 0 /\ hint < 0))
                THEN e0 - 1 ELSE e0
        half == 5 * o * 2^(e + 12)
        ulp  == 2 * half
        n    == (j * Pow2Mod(50 - e, 4 * o)) % (4 * o)
        t    == 5 * 2^(e + 12) * (n % (2 * o)) + eps
        q    == t \div ulp
        rem  == t % ulp
        odd  == (n \div (2 * o) + q) % 2 = 1
        up   == IF rem # half THEN rem > half
                ELSE IF hint # 0 THEN hint > 0
                ELSE odd
    IN  [m |-> j, d |-> eps - rem + (IF up THEN ulp ELSE 0)]

Sign(k) == IF k > 0 THEN 1 ELSE IF k < 0 THEN -1 ELSE 0

\* the decimal literals of the code as doubles
C_025 == [m |-> 250, d |-> 0]           \* 0.25
C_02  == [m |-> 200, d |-> 256000]      \* 0.2
C_035 == [m |-> 350, d |-> -512000]     \* 0.35
C_03  == [m |-> 300, d |-> -256000]     \* 0.3
C_07  == [m |-> 700, d |-> -1024000]    \* 0.7
C_08  == [m |-> 800, d |-> 1024000]     \* 0.8
C_01  == [m |-> 100, d |-> 128000]      \* 0.1
C_015 == [m |-> 150, d |-> -128000]     \* 0.15

FInt(k) == [m |-> 1000 * k, d |-> 0]

\* a / b for integers a, b with b dividing 1000 * a
FDivInt(a, b) == Fl(Dec, (1000 * a) \div b, 0, 0)

\* x * k for a double x and an integer k
FMulInt(x, k) == Fl(Dec, x.m * k, x.d * k, 0)

\* x * c for a double x and a literal c: the exact product is
\* (x.m * c.m) / 10^6 + (x.d * c.m + x.m * c.d) / 1000 * U + x.d * c.d * U^2;
\* x.d is a multiple of 20, c.m of 50 and c.d of 1000
FMul(x, c) ==
    Fl(Dec, (x.m * c.m) \div 1000,
       (x.d \div 20) * (c.m \div 50) + x.m * (c.d \div 1000),
       Sign(x.d) * Sign(c.d))

FAdd(x, y) == Fl(Dec, x.m + y.m, x.d + y.d, 0)

\* x > k and x < k for a double x >= 0 and an integer k
FGt(x, k) == x.m > 1000 * k \/ (x.m = 1000 * k /\ x.d > 0)
FLt(x, k) == x.m < 1000 * k \/ (x.m = 1000 * k /\ x.d < 0)

\* Math.round of a double x >= 0: nearest integer, a tie goes up
MathRound(x) ==
    LET k == x.m \div 1000
        f == x.m % 1000
    IN  IF f > 500 \/ (f = 500 /\ x.d >= 0) THEN k + 1 ELSE k

\* Math.min(k, x) for an integer k and a double x
FMin(k, x) == IF FGt(x, k) THEN FInt(k) ELSE x

(***************************************************************************)
(* Final computations of the sampling detectors                            *)
(***************************************************************************)
sampleSize == 1000
sampleRows == 50
smoothSamples == 1000
maxColors == 250

\* analyzePixelAnomalies after its sampling loop
PixelAnomalyResult(anomalyCount) ==
    LET severity == FMulInt(FDivInt(anomalyCount, sampleSize), 100)
        detected == FGt(severity, 15)
    IN  [detected    |-> detected,
         severity    |-> MathRound(severity),
         description |-> IF detected
             THEN <<ToString(anomalyCount),
                    " pixel discontinuities detected indicating potential manipulation">>
             ELSE <<"No significant pixel anomalies detected">>]

\* detected above 80
aiDetected_Strict(aiConfidence) == FGt(aiConfidence, 80)
\* const detected = aiConfidence > 60
aiDetected(aiConfidence) == FGt(aiConfidence, 60)

\* both percentages weighted 0.7
AIArtifactResult_Weights(symmetryScore, smoothnessScore) ==
    LET symmetryPercent   == FMulInt(FDivInt(symmetryScore, sampleRows), 100)
        smoothnessPercent == FMulInt(FDivInt(smoothnessScore, smoothSamples), 100)
        aiConfidence      == FAdd(FMul(symmetryPercent, C_07),
                                  FMul(smoothnessPercent, C_07))
        detected          == aiDetected(aiConfidence)
    IN  [detected    |-> detected,
         confidence  |-> MathRound(aiConfidence),
         description |-> IF detected
             THEN <<"High symmetry and smoothness patterns typical of GAN/diffusion models detected">>
             ELSE <<"No significant AI generation artifacts found">>]
\* detectAIArtifacts after its two sampling loops
AIArtifactResult(symmetryScore, smoothnessScore) ==
    LET symmetryPercent   == FMulInt(FDivInt(symmetryScore, sampleRows), 100)
        smoothnessPercent == FMulInt(FDivInt(smoothnessScore, smoothSamples), 100)
        aiConfidence      == FAdd(FMul(symmetryPercent, C_03),
                                  FMul(smoothnessPercent, C_07))
        detected          == aiDetected(aiConfidence)
    IN  [detected    |-> detected,
         confidence  |-> MathRound(aiConfidence),
         description |-> IF detected
             THEN <<"High symmetry and smoothness patterns typical of GAN/diffusion models detected">>
             ELSE <<"No significant AI generation artifacts found">>]

\* analyzeSemanticLogic after its scan, size = colorDiversity.size
SemanticResult(size) ==
    LET diversityScore == FMin(100, FMulInt(FDivInt(size, maxColors), 100))
        logical        == FGt(diversityScore, 30)
    IN  [logical     |-> logical,
         score       |-> MathRound(diversityScore),
         description |-> IF logical
             THEN <<"Color distribution and composition appear natural">>
             ELSE <<"Limited color diversity may indicate synthetic generation">>]

(***************************************************************************)
(* Heatmap Synthesizer                                                     *)
(***************************************************************************)
maxRegions == 8

\* Values Math.random() returns in the model: 0, 0.5 and 1 - 2^-53, the
\* largest double below 1
RandomValues == {[m |-> 0, d |-> 0], [m |-> 500, d |-> 0],
                 [m |-> 1000, d |-> -2560000]}

\* the five draws of one region
RandomVectors == [1..5 -> RandomValues]
\* all five draws of a region return the same value
EqualVectors == {[k \in 1..5 |-> u] : u \in RandomValues}

\* x taken from the draw without the factor 0.8
Region_UnscaledX(v) ==
    [x         |-> v[1],
     y         |-> FMul(v[2], C_08),
     width     |-> FAdd(C_01, FMul(v[3], C_015)),
     height    |-> FAdd(C_01, FMul(v[4], C_015)),
     intensity |-> FAdd(C_03, FMul(v[5], C_07))]
\* the region pushed in a pass of the loop whose five draws are v
Region(v) ==
    [x         |-> FMul(v[1], C_08),
     y         |-> FMul(v[2], C_08),
     width     |-> FAdd(C_01, FMul(v[3], C_015)),
     height    |-> FAdd(C_01, FMul(v[4], C_015)),
     intensity |-> FAdd(C_03, FMul(v[5], C_07))]

\* Region, tabulated
RegionOf == [v \in RandomVectors |-> Region(v)]

\* Math.round in place of Math.floor
generateHeatmap_Round(pixelAnomalySeverity, aiConfidence, rnd) ==
    LET numRegions == (pixelAnomalySeverity + aiConfidence + 10) \div 20
    IN  [regions |-> [i \in 1..Min(numRegions, maxRegions) |-> RegionOf[rnd[i]]]]
\* rnd[i] holds the five draws of the i-th pass of the loop
generateHeatmap(pixelAnomalySeverity, aiConfidence, rnd) ==
    LET numRegions == (pixelAnomalySeverity + aiConfidence) \div 20
    IN  [regions |-> [i \in 1..Min(numRegions, maxRegions) |-> RegionOf[rnd[i]]]]

(***************************************************************************)
(* Aggregator                                                              *)
(***************************************************************************)
\* each term rounded on its own
manipulationScore_RoundEach(pa, ls, ai, md, sl) ==
    MathRound(FMul(FInt(pa.severity), C_025))
    + MathRound(FMul(FInt(100 - ls.score), C_02))
    + MathRound(FMul(FInt(ai.confidence), C_035))
    + Len(md.flags) * 5
    + MathRound(FMul(FInt(100 - sl.score), C_02))
\* const manipulationScore = Math.round(...), before any clamping
manipulationScore(pa, ls, ai, md, sl) ==
    MathRound(
        FAdd(FAdd(FAdd(FAdd(FMul(FInt(pa.severity), C_025),
                            FMul(FInt(100 - ls.score), C_02)),
                       FMul(FInt(ai.confidence), C_035)),
                  FInt(Len(md.flags) * 5)),
             FMul(FInt(100 - sl.score), C_02)))

\* const trustScore = Math.max(0, 100 - manipulationScore)
\* the distance to 100 instead of the floor at 0
trustScoreOf_Abs(score) == IF score > 100 THEN score - 100 ELSE 100 - score
trustScoreOf_Sign(score) == Max(0, score - 100)
trustScoreOf(score) == Max(0, 100 - score)

\* the if / else if / else that sets resultType
resultTypeOf_EditedFirst(ai, score) ==
    IF score > 50 THEN "edited"
    ELSE IF ai.detected /\ ai.confidence > 70 THEN "ai_generated"
    ELSE "real"
resultTypeOf(ai, score) ==
    IF ai.detected /\ ai.confidence > 70 THEN "ai_generated"
    ELSE IF score > 50 THEN "edited"
    ELSE "real"

\* Math.min(100, Math.max(0, x))
clamp_NoUpper(x) == Max(0, x)
clamp(x) == Min(100, Max(0, x))

Pad(n, width) ==
    LET t == ToString(n)
    IN  IF width = 3 /\ n < 10 THEN "00" \o t
        ELSE IF (width = 3 /\ n < 100) \/ (width = 2 /\ n < 10) THEN "0" \o t
        ELSE t

\* new Date(ms).toISOString() for the time stamps of the model, which all
\* lie in January 1970
toISOString(ms) ==
    <<"1970-01-", Pad(1 + ms \div 86400000, 2), "T",
      Pad((ms \div 3600000) % 24, 2), ":", Pad((ms \div 60000) % 60, 2), ":",
      Pad((ms \div 1000) % 60, 2), ".", Pad(ms % 1000, 3), "Z">>

\* analyzeImage from the Promise.all join to its return; processingTimeMs,
\* a wall-clock reading that nothing depends on, is left out
analyzeImage(f, pa, ls, ai, md, sl, rnd) ==
    LET score == manipulationScore(pa, ls, ai, md, sl)
        trustScore == trustScoreOf(score)
        resultType == resultTypeOf(ai, score)
        explanation ==
            IF resultType = "ai_generated" THEN
                <<"This image appears to be AI-generated. ">>
                \o ai.description
                \o <<". The analysis detected ",
                     IF pa.detected THEN "artificial pixel patterns"
                                    ELSE "synthetic characteristics",
                     " with a manipulation score of ", ToString(score), "%.">>
            ELSE IF resultType = "edited" THEN
                <<"This image shows signs of editing. ">>
                \o (IF pa.detected THEN pa.description \o <<". ">> ELSE <<>>)
                \o (IF ~ls.consistent THEN ls.description \o <<". ">> ELSE <<>>)
                \o (IF Len(md.flags) > 0 THEN md.description ELSE <<>>)
            ELSE
                <<"This image appears authentic. No significant manipulation detected. Lighting and shadows are consistent, pixel patterns are natural, and metadata checks passed.">>
    IN  [resultType        |-> resultType,
         manipulationScore |-> clamp(score),
         trustScore        |-> clamp(trustScore),
         explanation       |-> explanation,
         detectionDetails  |-> [pixelAnomalies  |-> pa,
                                lightingShadows |-> ls,
                                aiArtifacts     |-> ai,
                                metadata        |-> md,
                                semanticLogic   |-> sl],
         heatmapData       |-> generateHeatmap(pa.severity, ai.confidence, rnd),
         metadataAnalysis  |-> [hasExif  |-> TRUE,
                                dateTime |-> toISOString(f.lastModified),
                                flags    |-> md.flags]]

\* the row App.analyzeImage inserts into image_analyses for a result
InsertRow(res) ==
    [result_type        |-> res.resultType,
     manipulation_score |-> res.manipulationScore,
     trust_score        |-> res.trustScore]

\* the CHECK constraints of table image_analyses
ImageAnalysesCheck(row) ==
    /\ row.result_type \in {"real", "edited", "ai_generated"}
    /\ row.manipulation_score >= 0 /\ row.manipulation_score <= 100
    /\ row.trust_score >= 0 /\ row.trust_score <= 100

(***************************************************************************)
(* Pixel buffers                                                           *)
(***************************************************************************)
MaxWidth == 2
MaxHeight == 2
SampleParts == 2

\* colours of the model's images: black, a dark colour whose channel sum is
\* no multiple of 3, white
Palette == {<<0, 0, 0>>, <<10, 10, 5>>, <<255, 255, 255>>}

\* ctx.getImageData: flat RGBA bytes, row-major; pixels is the sequence of
\* the image's colours
ImageData(w, h, pixels) ==
    [width  |-> w,
     height |-> h,
     data   |-> [k \in 1..(4 * w * h) |->
                    IF (k - 1) % 4 = 3 THEN 255
                    ELSE pixels[((k - 1) \div 4) + 1][((k - 1) % 4) + 1]]]

Images ==
    UNION {{ImageData(w, h, px) : px \in [1..(w * h) -> Palette]} :
           <<w, h>> \in (1..MaxWidth) \X (1..MaxHeight)}

\* data[i] of the zero-based Uint8ClampedArray
At(data, i) == data[i + 1]

\* NaN, the value of 0 / 0; no double of the model has a negative m
NaN == [m |-> -1, d |-> 0]
Pix == 3     \* number system of the pixel arithmetic: j counts 1/24

RECURSIVE SumAt(_, _, _)
SumAt(data, idx, off) ==
    IF idx = <<>> THEN 0
    ELSE At(data, Head(idx) + off) + SumAt(data, Tail(idx), off)

\* the array neighbors of getNeighborAverage, after its filter
Neighbors(data, index, width) ==
    SelectSeq(<<index - width * 4, index + width * 4, index - 4, index + 4>>,
              LAMBDA i : i >= 0 /\ i < Len(data))

\* a neighbour outside the buffer counted as a black pixel
getNeighborAverage_ZeroFill(data, index, width) ==
    LET neighbors == Neighbors(data, index, width)
        avg(off) == Fl(Pix, (24 * SumAt(data, neighbors, off)) \div 4, 0, 0)
    IN  [r |-> avg(0), g |-> avg(1), b |-> avg(2)]
getNeighborAverage(data, index, width) ==
    LET neighbors == Neighbors(data, index, width)
        count == Len(neighbors)
        avg(off) == IF count = 0 THEN NaN
                    ELSE Fl(Pix, (24 * SumAt(data, neighbors, off)) \div count, 0, 0)
    IN  [r |-> avg(0), g |-> avg(1), b |-> avg(2)]

\* Math.abs(k - x) for a byte k and a double x
AbsDiff(k, x) ==
    IF x = NaN THEN NaN
    ELSE IF 24 * k >= x.m THEN Fl(Pix, 24 * k - x.m, -x.d, 0)
    ELSE Fl(Pix, x.m - 24 * k, x.d, 0)

PAdd(x, y) ==
    IF x = NaN \/ y = NaN THEN NaN ELSE Fl(Pix, x.m + y.m, x.d + y.d, 0)

\* x > k and x < k in the pixel arithmetic; false for NaN
PGt(x, k) == x # NaN /\ (x.m > 24 * k \/ (x.m = 24 * k /\ x.d > 0))
PLt(x, k) == x # NaN /\ (x.m < 24 * k \/ (x.m = 24 * k /\ x.d < 0))

\* |r - avg.r| + |g - avg.g| + |b - avg.b| of the pixel at randomIndex
NeighborDiff(img, randomIndex) ==
    LET avg == getNeighborAverage(img.data, randomIndex, img.width)
    IN  PAdd(PAdd(AbsDiff(At(img.data, randomIndex), avg.r),
                  AbsDiff(At(img.data, randomIndex + 1), avg.g)),
             AbsDiff(At(img.data, randomIndex + 2), avg.b))

\* Math.floor(Math.random() * (data.length / 4)) * 4 ranges over these
PixelIndexes(img) == {4 * p : p \in 0..((Len(img.data) \div 4) - 1)}

\* Outcomes of a loop that draws total samples and counts the hits: the
\* draws fall in SampleParts equal batches, each batch on one sample
SampleCounts(total, all, hits) ==
    {(k * total) \div SampleParts :
        k \in {k \in 0..SampleParts : /\ (k > 0 => hits # {})
                                      /\ (k < SampleParts => hits # all)}}

AnomalousPixels(img) ==
    {i \in PixelIndexes(img) : PGt(NeighborDiff(img, i), 100)}

SmoothPixels(img) ==
    {i \in PixelIndexes(img) : PLt(NeighborDiff(img, i), 20)}

RowDiff(img, y) ==
    LET leftIndex  == (y * img.width) * 4
        rightIndex == (y * img.width + img.width - 1) * 4
        abs(k) == IF k < 0 THEN -k ELSE k
    IN  abs(At(img.data, leftIndex) - At(img.data, rightIndex))
        + abs(At(img.data, leftIndex + 1) - At(img.data, rightIndex + 1))
        + abs(At(img.data, leftIndex + 2) - At(img.data, rightIndex + 2))

Rows(img) == 0..(img.height - 1)
SymmetricRows(img) == {y \in Rows(img) : RowDiff(img, y) < 30}

(***************************************************************************)
(* Lighting/Shadow Consistency Detector                                    *)
(*                                                                         *)
(* With s[i] = r + g + b of pixel i and n pixels, the variance of the      *)
(* brightness is V / (9 n^2) for the integer V = n * Sum s^2 - (Sum s)^2.  *)
(* The score and the verdict are decided by comparing V with squares, in   *)
(* exact arithmetic.                                                       *)
(***************************************************************************)
RECURSIVE SumOver(_, _)
SumOver(f, S) ==
    IF S = {} THEN 0
    ELSE LET i == CHOOSE i \in S : TRUE IN f[i] + SumOver(f, S \ {i})

\* the squared deviations taken from 0 instead of from the mean
BrightnessVariance_NoMean(img) ==
    LET n  == Len(img.data) \div 4
        s  == [p \in 0..(n - 1) |->
                 At(img.data, 4 * p) + At(img.data, 4 * p + 1) + At(img.data, 4 * p + 2)]
        sq == [p \in 0..(n - 1) |-> s[p] * s[p]]
    IN  n * SumOver(sq, 0..(n - 1))
\* n^2 * 9 * variance: n * sum(s^2) - sum(s)^2 for the channel sums s
BrightnessVariance(img) ==
    LET n  == Len(img.data) \div 4
        s  == [p \in 0..(n - 1) |->
                 At(img.data, 4 * p) + At(img.data, 4 * p + 1) + At(img.data, 4 * p + 2)]
        sq == [p \in 0..(n - 1) |-> s[p] * s[p]]
    IN  n * SumOver(sq, 0..(n - 1)) - SumOver(s, 0..(n - 1)) * SumOver(s, 0..(n - 1))

\* 6400 * v <= p * p, without the products leaving 32 bits
LeSquare(v, p) ==
    LET q == p \div 80
        r == p % 80
    IN  v <= q * q + (160 * q * r + r * r) \div 6400

analyzeLightingAndShadows(img) ==
    LET n == Len(img.data) \div 4
        v == BrightnessVariance(img)
        \* Math.round(Math.max(0, 100 - stdDev / 255 * 200)) >= k
        \* iff 80 * sqrt(v) <= 153 * n * (201 - 2 * k)
        score == CHOOSE k \in 0..100 :
                    /\ k = 0 \/ LeSquare(v, 153 * n * (201 - 2 * k))
                    /\ k = 100 \/ ~LeSquare(v, 153 * n * (199 - 2 * k))
        \* consistencyScore > 40 iff stdDev < 76.5 iff 4 * v < (459 * n)^2
        consistent == 4 * v < (459 * n) * (459 * n)
    IN  [consistent  |-> consistent,
         score       |-> score,
         description |-> IF consistent
             THEN <<"Lighting and shadow patterns appear natural and consistent">>
             ELSE <<"Unusual lighting variations detected suggesting possible compositing">>]

(***************************************************************************)
(* Semantic/Color-Diversity Detector                                       *)
(***************************************************************************)
\* a scan with i += 20
Scanned_Step20(data) == {i \in 0..(Min(10000, Len(data)) - 1) : i % 20 = 0}
\* the values of i in: for (let i = 0; i < 10000 && i < data.length; i += 40)
Scanned(data) == {i \in 0..(Min(10000, Len(data)) - 1) : i % 40 = 0}

analyzeSemanticLogic(img) ==
    LET scanned == Scanned(img.data)
        colorDiversity ==
            {<<At(img.data, i) \div 32, At(img.data, i + 1) \div 32,
               At(img.data, i + 2) \div 32>> : i \in scanned}
    IN  SemanticResult(Cardinality(colorDiversity))

(***************************************************************************)
(* Files                                                                   *)
(***************************************************************************)
N_vacation == <<"v","a","c","a","t","i","o","n",".","j","p","g">>
N_midjourney == <<"m","i","d","j","o","u","r","n","e","y","_","o","u","t","p","u","t",".","p","n","g">>
N_Screenshot == <<"S","c","r","e","e","n","s","h","o","t"," ","1",".","p","n","g">>
N_screen_shot == <<"s","c","r","e","e","n"," ","s","h","o","t",".","p","n","g">>
N_rain == <<"r","a","i","n",".","j","p","g">>
N_DALLE == <<"D","A","L","L","E","-","3",".","p","n","g">>
N_Generated == <<"G","e","n","e","r","a","t","e","d",".","p","n","g">>
N_AI_screenshot == <<"A","I"," ","s","c","r","e","e","n","s","h","o","t",".","p","n","g">>
N_url == <<"i","m","a","g","e",".","j","p","g">>
T_empty == <<>>
T_jpeg == <<"i","m","a","g","e","/","j","p","e","g">>
T_plain == <<"t","e","x","t","/","p","l","a","i","n">>
T_image == <<"i","m","a","g","e">>
T_nested == <<"a","p","p","l","i","c","a","t","i","o","n","/","i","m","a","g","e","/","p","n","g">>

FileNames == {N_vacation, N_midjourney, N_Screenshot, N_screen_shot, N_rain,
              N_DALLE, N_Generated, N_AI_screenshot, N_url}
FileTypes == {T_empty, T_jpeg, T_plain, T_image, T_nested}
FileSizes == {0, 999, 1000, 500000, 2000000, 52428800, 52428801}
\* File.lastModified is always a number; 0 is the one falsy time stamp
FileTimes == {0, 1000000}

\* what analyzeMetadata reads of a File
FileFacts == [type : FileTypes, size : FileSizes, name : FileNames,
              lastModified : FileTimes]

Facts(f) == [type |-> f.type, size |-> f.size, name |-> f.name,
             lastModified |-> f.lastModified]

\* files with 0, 1, ..., 5 metadata flags
F_clean   == [type |-> T_jpeg,  size |-> 500000,   name |-> N_vacation,      lastModified |-> 1000000]
F_ai      == [type |-> T_empty, size |-> 2000000,  name |-> N_midjourney,    lastModified |-> 1000000]
F_two     == [type |-> T_jpeg,  size |-> 999,      name |-> N_Screenshot,    lastModified |-> 1000000]
F_three   == [type |-> T_plain, size |-> 52428801, name |-> N_rain,          lastModified |-> 1000000]
F_four    == [type |-> T_jpeg,  size |-> 0,        name |-> N_AI_screenshot, lastModified |-> 0]
F_five    == [type |-> T_plain, size |-> 0,        name |-> N_AI_screenshot, lastModified |-> 0]

AggregatorFiles == {F_clean, F_ai, F_two, F_three, F_four, F_five}

\* what img.onload can report with no pixel: zero width or zero height
EmptyImages == {ImageData(0, 1, <<>>), ImageData(1, 0, <<>>)}

\* the bytes of a file: <<img>> when they decode to img, <<>> when they do not
Contents == {<<img>> : img \in Images \cup EmptyImages} \cup {<<>>}

WithContent(f, c) == [type |-> f.type, size |-> f.size, name |-> f.name,
                      lastModified |-> f.lastModified, content |-> c]

PipelineFiles == {WithContent(f, c) : f \in {F_clean, F_five}, c \in Contents}

\* the files of the calls that follow the first one
RepeatContents == {<<>>,
                   <<ImageData(1, 1, <<<<255, 255, 255>>>>)>>,
                   <<ImageData(2, 2, <<<<0, 0, 0>>, <<255, 255, 255>>,
                                       <<10, 10, 5>>, <<0, 0, 0>>>>)>>}
RepeatFiles == {WithContent(f, c) : f \in {F_clean, F_five}, c \in RepeatContents}

\* analyzeFromUrl(url): response is what fetch(url) does, "ok" (a response
\* arrives), "fails" (fetch rejects) or "silent" (nothing ever arrives); the
\* other fields are those of new File([blob], 'image.jpg', {type: blob.type})
F_url == [type |-> T_jpeg, size |-> 500000, name |-> N_url, lastModified |-> 1000000]

UrlFiles == {[type |-> F_url.type, size |-> F_url.size, name |-> F_url.name,
              lastModified |-> F_url.lastModified, content |-> c, response |-> r] :
                c \in RepeatContents, r \in {"ok", "fails", "silent"}}

(***************************************************************************)
(* The analysis call: ImageAnalyzer.analyzeImage(file)                     *)
(*                                                                         *)
(* pc: "call" --loadImageData--> "pixel" --> "lighting" --> "ai" -->       *)
(* "metadata" --> "semantic" --> "join" --return--> "done", or "call" -->  *)
(* "rejected" when the image does not load, or "call" --> "hung" when the   *)
(* load handler throws and the promise of loadImageData is never settled.  *)
(* The five detectors have no await inside, so they run to completion in   *)
(* the order of the Promise.all array.  A call of analyzeFromUrl starts at *)
(* "fetch".                                                                *)
(***************************************************************************)
\* analyzeFromUrl: await fetch(url), await response.blob(), new File(...)
FetchUrl ==
    /\ pc = "fetch"
    /\ file.response # "silent"
    /\ pc' = IF file.response = "ok" THEN "call" ELSE "rejected"
    /\ UNCHANGED <<counts, file, imageData, pixelAnomalies, lightingShadows, aiArtifacts,
                   metadata, semanticLogic, result, lastCall, app>>

LoadImageData ==
    /\ pc = "call"
    /\ IF file.content = <<>>
       THEN /\ imageData' = imageData           \* img.onerror: reject
            /\ pc' = "rejected"
       ELSE IF file.content[1].width = 0 \/ file.content[1].height = 0
       THEN /\ imageData' = imageData           \* getImageData throws in img.onload
            /\ pc' = "hung"
       ELSE /\ imageData' = file.content[1]     \* img.onload: resolve
            /\ pc' = "pixel"
    /\ UNCHANGED <<counts, file, pixelAnomalies, lightingShadows, aiArtifacts,
                   metadata, semanticLogic, result, lastCall, app>>

AnalyzePixelAnomalies ==
    /\ pc = "pixel"
    /\ \E anomalyCount \in SampleCounts(sampleSize, PixelIndexes(imageData),
                                        AnomalousPixels(imageData)) :
          pixelAnomalies' = PixelAnomalyResult(anomalyCount)
    /\ pc' = "lighting"
    /\ UNCHANGED <<counts, file, imageData, lightingShadows, aiArtifacts, metadata,
                   semanticLogic, result, lastCall, app>>

AnalyzeLightingAndShadows ==
    /\ pc = "lighting"
    /\ lightingShadows' = analyzeLightingAndShadows(imageData)
    /\ pc' = "ai"
    /\ UNCHANGED <<counts, file, imageData, pixelAnomalies, aiArtifacts, metadata,
                   semanticLogic, result, lastCall, app>>

DetectAIArtifacts ==
    /\ pc = "ai"
    /\ \E symmetryScore \in SampleCounts(sampleRows, Rows(imageData),
                                         SymmetricRows(imageData)),
          smoothnessScore \in SampleCounts(smoothSamples, PixelIndexes(imageData),
                                           SmoothPixels(imageData)) :
          aiArtifacts' = AIArtifactResult(symmetryScore, smoothnessScore)
    /\ pc' = "metadata"
    /\ UNCHANGED <<counts, file, imageData, pixelAnomalies, lightingShadows, metadata,
                   semanticLogic, result, lastCall, app>>

AnalyzeMetadata ==
    /\ pc = "metadata"
    /\ metadata' = analyzeMetadata(file)
    /\ pc' = "semantic"
    /\ UNCHANGED <<counts, file, imageData, pixelAnomalies, lightingShadows,
                   aiArtifacts, semanticLogic, result, lastCall, app>>

AnalyzeSemanticLogic ==
    /\ pc = "semantic"
    /\ semanticLogic' = analyzeSemanticLogic(imageData)
    /\ pc' = "join"
    /\ UNCHANGED <<counts, file, imageData, pixelAnomalies, lightingShadows,
                   aiArtifacts, metadata, result, lastCall, app>>

\* from the join of Promise.all to the return of the AnalysisResult
AnalyzeImageReturn ==
    /\ pc = "join"
    /\ \E v \in EqualVectors :
          result' = analyzeImage(file, pixelAnomalies, lightingShadows,
                                 aiArtifacts, metadata, semanticLogic,
                                 [i \in 1..maxRegions |-> v])
    /\ pc' = "done"
    /\ UNCHANGED <<counts, file, imageData, pixelAnomalies, lightingShadows,
                   aiArtifacts, metadata, semanticLogic, lastCall, app>>

\* the caller analyzes the next file (App.analyzeImage, handleBatchAnalyze)
NextCall ==
    /\ pc \in {"done", "rejected"}
    /\ lastCall' = IF pc = "done"
                   THEN <<[file     |-> Facts(file),
                           flags    |-> metadata.flags,
                           severity |-> pixelAnomalies.severity]>>
                   ELSE lastCall
    /\ file' \in RepeatFiles
    /\ pc' = "call"
    /\ imageData' = None
    /\ pixelAnomalies' = None
    /\ lightingShadows' = None
    /\ aiArtifacts' = None
    /\ metadata' = None
    /\ semanticLogic' = None
    /\ result' = None
    /\ UNCHANGED <<counts, app>>

Init ==
    /\ \/ pc = "call" /\ file \in PipelineFiles
       \/ pc = "fetch" /\ file \in UrlFiles
    /\ imageData = None
    /\ pixelAnomalies = None
    /\ lightingShadows = None
    /\ aiArtifacts = None
    /\ metadata = None
    /\ semanticLogic = None
    /\ result = None
    /\ lastCall = <<>>
    /\ app = None
    /\ counts = None

Next ==
    \/ FetchUrl
    \/ LoadImageData
    \/ AnalyzePixelAnomalies
    \/ AnalyzeLightingAndShadows
    \/ DetectAIArtifacts
    \/ AnalyzeMetadata
    \/ AnalyzeSemanticLogic
    \/ AnalyzeImageReturn
    \/ NextCall

Spec == Init /\ [][Next]_vars

\* the event loop runs a continuation that is ready: the steps that follow
\* the response of fetch and the load or error event of the image
SpecLive == Spec /\ WF_vars(FetchUrl) /\ WF_vars(LoadImageData)

(***************************************************************************)
(* analyzeMetadata on its own: every file of FileFacts                     *)
(***************************************************************************)
InitMeta ==
    /\ pc = "metadata"
    /\ file \in FileFacts
    /\ imageData = None
    /\ pixelAnomalies = None
    /\ lightingShadows = None
    /\ aiArtifacts = None
    /\ metadata = None
    /\ semanticLogic = None
    /\ result = None
    /\ lastCall = <<>>
    /\ app = None
    /\ counts = None

NextMeta == AnalyzeMetadata

SpecMeta == InitMeta /\ [][NextMeta]_vars

(***************************************************************************)
(* The aggregator on its own: the detector results of arbitrary images.    *)
(* Each result is one its detector can return: the sampling detectors'     *)
(* results come from their final computations on a grid of counts, the     *)
(* lighting result from two-pixel gray images, the metadata from a file.   *)
(***************************************************************************)
AggregatorParts == 3

GridCounts(total) == {(k * total) \div AggregatorParts : k \in 0..AggregatorParts}

GrayPair(d) == ImageData(2, 1, <<<<0, 0, 0>>, <<d, d, d>>>>)
GrayLevels == {0, 102, 153, 255}

InitAgg ==
    /\ pc = "join"
    /\ file \in AggregatorFiles
    /\ imageData = None
    /\ pixelAnomalies \in {PixelAnomalyResult(c) : c \in GridCounts(sampleSize)}
    /\ lightingShadows \in {analyzeLightingAndShadows(GrayPair(d)) : d \in GrayLevels}
    /\ aiArtifacts \in {AIArtifactResult(sy, sm) :
                           sy \in GridCounts(sampleRows),
                           sm \in GridCounts(smoothSamples)}
                       \cup {AIArtifactResult(10, 0), AIArtifactResult(50, 786)}
    /\ metadata = analyzeMetadata(file)
    \* the scan always visits the pixel at offset 0
    /\ semanticLogic \in {SemanticResult(Max(1, n)) : n \in GridCounts(maxColors)}
                         \cup {SemanticResult(245)}
    /\ result = None
    /\ lastCall = <<>>
    /\ app = None
    /\ counts = None

NextAgg == AnalyzeImageReturn

SpecAgg == InitAgg /\ [][NextAgg]_vars

(***************************************************************************)
(* generateHeatmap on its own: every severity, independent draws           *)
(***************************************************************************)
GenerateHeatmap ==
    /\ pc = "heatmap"
    /\ \E v \in RandomVectors :
          result' = [heatmapData |->
                        generateHeatmap(pixelAnomalies.severity,
                                        aiArtifacts.confidence,
                                        [i \in 1..maxRegions |-> v])]
    /\ pc' = "done"
    /\ UNCHANGED <<counts, file, imageData, pixelAnomalies, lightingShadows,
                   aiArtifacts, metadata, semanticLogic, lastCall, app>>

InitHeat ==
    /\ pc = "heatmap"
    /\ file = None
    /\ imageData = None
    /\ pixelAnomalies \in {PixelAnomalyResult(10 * k) : k \in 0..100}
    /\ lightingShadows = None
    /\ aiArtifacts \in {AIArtifactResult(0, 0), AIArtifactResult(sampleRows, smoothSamples)}
    /\ metadata = None
    /\ semanticLogic = None
    /\ result = None
    /\ lastCall = <<>>
    /\ app = None
    /\ counts = None

NextHeat == GenerateHeatmap

SpecHeat == InitHeat /\ [][NextHeat]_vars

(***************************************************************************)
(* analyzeLightingAndShadows on its own: uniformly gray images of every    *)
(* gray value and size, and two-tone images                                *)
(***************************************************************************)
MaxGrayWidth == 4
MaxGrayHeight == 4

GrayImage(w, h, g) == ImageData(w, h, [i \in 1..(w * h) |-> <<g, g, g>>])

GrayImages == {GrayImage(w, h, g) :
                  w \in 1..MaxGrayWidth, h \in 1..MaxGrayHeight, g \in 0..255}

InitLight ==
    /\ pc = "lighting"
    /\ file = None
    /\ imageData \in GrayImages \cup {GrayPair(d) : d \in GrayLevels}
    /\ pixelAnomalies = None
    /\ lightingShadows = None
    /\ aiArtifacts = None
    /\ metadata = None
    /\ semanticLogic = None
    /\ result = None
    /\ lastCall = <<>>
    /\ app = None
    /\ counts = None

NextLight == AnalyzeLightingAndShadows

SpecLight == InitLight /\ [][NextLight]_vars

(***************************************************************************)
(* The final computations of analyzePixelAnomalies and detectAIArtifacts   *)
(* on their own: every value the counters can have when the loops end      *)
(***************************************************************************)
PixelAnomaliesReturn ==
    /\ pc = "pixelResult"
    /\ pixelAnomalies' = PixelAnomalyResult(counts.anomalyCount)
    /\ pc' = "done"
    /\ UNCHANGED <<counts, file, imageData, lightingShadows, aiArtifacts,
                   metadata, semanticLogic, result, lastCall, app>>

AIArtifactsReturn ==
    /\ pc = "aiResult"
    /\ aiArtifacts' = AIArtifactResult(counts.symmetryScore, counts.smoothnessScore)
    /\ pc' = "done"
    /\ UNCHANGED <<counts, file, imageData, pixelAnomalies, lightingShadows,
                   metadata, semanticLogic, result, lastCall, app>>

SemanticReturn ==
    /\ pc = "semanticResult"
    /\ semanticLogic' = SemanticResult(counts.size)
    /\ pc' = "done"
    /\ UNCHANGED <<counts, file, imageData, pixelAnomalies, lightingShadows,
                   aiArtifacts, metadata, result, lastCall, app>>

\* the scan of analyzeSemanticLogic visits at most 10000 / 40 offsets
maxScanned == 10000 \div 40

InitDetect ==
    /\ \/ /\ pc = "semanticResult"
          /\ counts \in [size : 0..maxScanned]
       \/ /\ pc = "pixelResult"
          /\ counts \in [anomalyCount : 0..sampleSize]
       \/ /\ pc = "aiResult"
          /\ counts \in [symmetryScore : 0..sampleRows,
                         smoothnessScore : 0..smoothSamples]
    /\ file = None
    /\ imageData = None
    /\ pixelAnomalies = None
    /\ lightingShadows = None
    /\ aiArtifacts = None
    /\ metadata = None
    /\ semanticLogic = None
    /\ result = None
    /\ lastCall = <<>>
    /\ app = None

NextDetect ==
    \/ PixelAnomaliesReturn
    \/ SemanticReturn
    \/ AIArtifactsReturn

SpecDetect == InitDetect /\ [][NextDetect]_vars

(***************************************************************************)
(* analyzeSemanticLogic on its own: one-row images of every size up to      *)
(* MaxPixels, coloured with 1, 7, 77 or 251 different quantised colours     *)
(***************************************************************************)
MaxPixels == 760

\* the c-th colour, one per cell of the 8 x 8 x 8 quantisation
Shade(c) == <<32 * (c % 8), 32 * ((c \div 8) % 8), 32 * (c \div 64)>>

\* n pixels in one row, pixel p of colour p modulo shades
ShadedImage(n, shades) == ImageData(n, 1, [p \in 1..n |-> Shade((p - 1) % shades)])

InitSemantic ==
    /\ pc = "semantic"
    /\ \E n \in 1..MaxPixels, shades \in {1, 7, 77, 251} :
          imageData = ShadedImage(n, shades)
    /\ file = None
    /\ pixelAnomalies = None
    /\ lightingShadows = None
    /\ aiArtifacts = None
    /\ metadata = None
    /\ semanticLogic = None
    /\ result = None
    /\ lastCall = <<>>
    /\ app = None
    /\ counts = None

NextSemantic == AnalyzeSemanticLogic

SpecSemantic == InitSemantic /\ [][NextSemantic]_vars

(***************************************************************************)
(* The App component: App.analyzeImage called once from the uploader       *)
(* (mode "single") or for each file of handleBatchAnalyze (mode "batch").  *)
(*                                                                         *)
(* app.pc: "start" (about to call analyzeImage for files[index]) -->       *)
(* "awaiting" (await imageAnalyzer.analyzeImage) --> "returned" (the       *)
(* promise of App.analyzeImage is resolved) --> "start" of the next file,  *)
(* or "idle" after the last one.  app.tasks holds the callbacks that are   *)
(* still to come for a file: reader.onloadend, then img.onload, then the   *)
(* answer of the insert.  The detectors run to completion in one task, so  *)
(* a callback runs only while the analyzer is not in its detector stage.   *)
(***************************************************************************)
MaxBatch == 2

AnalysisFailed == "Failed to analyze image. Please try again."
SaveFailed == "Failed to save analysis results"

\* an undecodable file and a decodable one
AppFiles == {WithContent(F_clean, <<>>),
             WithContent(F_clean, <<ImageData(1, 1, <<<<255, 255, 255>>>>)>>)}

\* a batch of two different decodable files
TwoImages == <<WithContent(F_clean, <<ImageData(1, 1, <<<<255, 255, 255>>>>)>>),
               WithContent(F_ai, <<ImageData(1, 1, <<<<0, 0, 0>>>>)>>)>>

FileLists == UNION {[1..n -> AppFiles] : n \in 1..MaxBatch} \cup {TwoImages}

\* the values of the App's state a call finds when it starts
Snapshot(a) == [currentAnalysis |-> a.currentAnalysis,
                currentImageUrl |-> a.currentImageUrl,
                rows            |-> a.rows,
                tasks           |-> a.tasks]

CallbackCanRun == pc \in {"idle", "call", "done", "rejected", "hung"}

\* analyzeImage(file): setIsAnalyzing(true), setError(null), the analyzer call
AppAnalyzeImage ==
    /\ app.pc = "start"
    /\ app' = [app EXCEPT !.pc = "awaiting",
                          !.isAnalyzing = TRUE,
                          !.error = <<>>,
                          !.analyzed = Append(@, app.index),
                          !.atStart = Snapshot(app)]
    /\ file' = app.files[app.index]
    /\ pc' = "call"
    /\ imageData' = None
    /\ pixelAnomalies' = None
    /\ lightingShadows' = None
    /\ aiArtifacts' = None
    /\ metadata' = None
    /\ semanticLogic' = None
    /\ result' = None
    /\ UNCHANGED <<counts, lastCall>>

\* the analyzer returned: the reader is started, finally setIsAnalyzing(false)
AppAnalyzed ==
    /\ app.pc = "awaiting"
    /\ pc = "done"
    /\ app' = [app EXCEPT !.pc = "returned",
                          !.isAnalyzing = FALSE,
                          !.tasks = @ \cup {[stage  |-> "reader",
                                             file   |-> app.index,
                                             result |-> result]}]
    /\ UNCHANGED <<counts, pc, file, imageData, pixelAnomalies, lightingShadows,
                   aiArtifacts, metadata, semanticLogic, result, lastCall>>

\* the catch clause rethrows: the caller's loop is abandoned
AppAnalyzeFailed_Rethrow ==
    /\ app.pc = "awaiting"
    /\ pc = "rejected"
    /\ app' = [app EXCEPT !.pc = "idle",
                          !.isAnalyzing = FALSE,
                          !.error = <<AnalysisFailed>>]
    /\ UNCHANGED <<counts, pc, file, imageData, pixelAnomalies, lightingShadows,
                   aiArtifacts, metadata, semanticLogic, result, lastCall>>
\* no finally clause: isAnalyzing is left as it is
AppAnalyzeFailed_NoFinally ==
    /\ app.pc = "awaiting"
    /\ pc = "rejected"
    /\ app' = [app EXCEPT !.pc = "returned",
                          !.error = <<AnalysisFailed>>]
    /\ UNCHANGED <<counts, pc, file, imageData, pixelAnomalies, lightingShadows,
                   aiArtifacts, metadata, semanticLogic, result, lastCall>>
\* the analyzer rejected: catch sets the error, finally setIsAnalyzing(false)
AppAnalyzeFailed ==
    /\ app.pc = "awaiting"
    /\ pc = "rejected"
    /\ app' = [app EXCEPT !.pc = "returned",
                          !.isAnalyzing = FALSE,
                          !.error = <<AnalysisFailed>>]
    /\ UNCHANGED <<counts, pc, file, imageData, pixelAnomalies, lightingShadows,
                   aiArtifacts, metadata, semanticLogic, result, lastCall>>

\* handleBatchAnalyze: the for loop goes on to the next file
BatchNext ==
    /\ app.mode = "batch"
    /\ app.pc = "returned"
    /\ app.index < Len(app.files)
    /\ app' = [app EXCEPT !.pc = "start", !.index = @ + 1]
    /\ UNCHANGED <<counts, pc, file, imageData, pixelAnomalies, lightingShadows,
                   aiArtifacts, metadata, semanticLogic, result, lastCall>>

\* handleBatchAnalyze: after the loop, setShowBatchAnalyzer(false)
BatchEnd ==
    /\ app.mode = "batch"
    /\ app.pc = "returned"
    /\ app.index = Len(app.files)
    /\ app' = [app EXCEPT !.pc = "idle", !.showBatchAnalyzer = FALSE]
    /\ UNCHANGED <<counts, pc, file, imageData, pixelAnomalies, lightingShadows,
                   aiArtifacts, metadata, semanticLogic, result, lastCall>>

\* reader.onloadend: setCurrentImageUrl, img.src = imageUrl
ReaderOnLoadEnd(t) ==
    /\ CallbackCanRun
    /\ t.stage = "reader"
    /\ app' = [app EXCEPT !.currentImageUrl = <<t.file>>,
                          !.tasks = (@ \ {t}) \cup {[t EXCEPT !.stage = "img"]}]
    /\ UNCHANGED <<counts, pc, file, imageData, pixelAnomalies, lightingShadows,
                   aiArtifacts, metadata, semanticLogic, result, lastCall>>

\* img.onload: the insert is sent
ImgOnLoad(t) ==
    /\ CallbackCanRun
    /\ t.stage = "img"
    /\ app' = [app EXCEPT !.tasks = (@ \ {t}) \cup {[t EXCEPT !.stage = "insert"]}]
    /\ UNCHANGED <<counts, pc, file, imageData, pixelAnomalies, lightingShadows,
                   aiArtifacts, metadata, semanticLogic, result, lastCall>>

\* the insert answers: with the stored row, or with dbError
InsertAnswered(t) ==
    /\ CallbackCanRun
    /\ t.stage = "insert"
    /\ \E stored \in BOOLEAN :
          LET row == [file |-> t.file, row |-> InsertRow(t.result)]
          IN  app' = IF stored
                     THEN [app EXCEPT !.rows = Append(@, row),
                                      !.currentAnalysis = <<row>>,
                                      !.tasks = @ \ {t}]
                     ELSE [app EXCEPT !.error = <<SaveFailed>>,
                                      !.tasks = @ \ {t}]
    /\ UNCHANGED <<counts, pc, file, imageData, pixelAnomalies, lightingShadows,
                   aiArtifacts, metadata, semanticLogic, result, lastCall>>

InitApp ==
    /\ pc = "idle"
    /\ file = None
    /\ imageData = None
    /\ pixelAnomalies = None
    /\ lightingShadows = None
    /\ aiArtifacts = None
    /\ metadata = None
    /\ semanticLogic = None
    /\ result = None
    /\ lastCall = <<>>
    /\ counts = None
    /\ \E mode \in {"single", "batch"} :
       \E files \in FileLists :
          /\ mode = "single" => Len(files) = 1
          /\ app = [mode              |-> mode,
                    files             |-> files,
                    index             |-> 1,
                    pc                |-> "start",
                    isAnalyzing       |-> FALSE,
                    currentAnalysis   |-> <<>>,
                    currentImageUrl   |-> <<>>,
                    showBatchAnalyzer |-> mode = "batch",
                    error             |-> <<>>,
                    rows              |-> <<>>,
                    tasks             |-> {},
                    analyzed          |-> <<>>,
                    atStart           |-> [currentAnalysis |-> <<>>,
                                           currentImageUrl |-> <<>>,
                                           rows            |-> <<>>,
                                           tasks           |-> {}]]

NextApp ==
    \/ AppAnalyzeImage
    \/ LoadImageData
    \/ AnalyzePixelAnomalies
    \/ AnalyzeLightingAndShadows
    \/ DetectAIArtifacts
    \/ AnalyzeMetadata
    \/ AnalyzeSemanticLogic
    \/ AnalyzeImageReturn
    \/ AppAnalyzed
    \/ AppAnalyzeFailed
    \/ BatchNext
    \/ BatchEnd
    \/ \E t \in app.tasks : ReaderOnLoadEnd(t)
    \/ \E t \in app.tasks : ImgOnLoad(t)
    \/ \E t \in app.tasks : InsertAnswered(t)

SpecApp == InitApp /\ [][NextApp]_vars

(***************************************************************************)
(* Properties                                                              *)
(***************************************************************************)
Has(flags, m) == \E i \in 1..Len(flags) : flags[i] = m

Contains(s, sub) ==
    \E i \in 0..(Len(s) - Len(sub)) : \A k \in 1..Len(sub) : s[i + k] = sub[k]

\* 100 times the weighted sum of the detector results, in exact arithmetic
ExactSum100 ==
    25 * pixelAnomalies.severity + 20 * (100 - lightingShadows.score)
    + 35 * aiArtifacts.confidence + 500 * Len(metadata.flags)
    + 20 * (100 - semanticLogic.score)

\* the weighted sum as the program's number arithmetic evaluates it, rounded
RoundedSum ==
    MathRound(
        FAdd(FAdd(FAdd(FAdd(FMul(FInt(pixelAnomalies.severity), C_025),
                            FMul(FInt(100 - lightingShadows.score), C_02)),
                       FMul(FInt(aiArtifacts.confidence), C_035)),
                  FInt(5 * Len(metadata.flags))),
             FMul(FInt(100 - semanticLogic.score), C_02)))

\* C1: the result type is decided by first match: ai_generated when the AI
\* detector reports detected with confidence above 70, otherwise edited when
\* the rounded weighted manipulation score is above 50, otherwise real.
C1_ClassificationPriority ==
    pc = "done" =>
        result.resultType =
            IF aiArtifacts.detected /\ aiArtifacts.confidence > 70
            THEN "ai_generated"
            ELSE IF result.manipulationScore > 50 THEN "edited" ELSE "real"

\* detected with confidence 85 and a weighted score of at most 50
C1_Witness ==
    /\ pc = "done"
    /\ aiArtifacts.detected /\ aiArtifacts.confidence = 85
    /\ RoundedSum <= 50
    /\ result.resultType = "ai_generated"

\* C2: the returned manipulationScore and trustScore both lie in [0, 100],
\* so the row inserted for the result satisfies the table's CHECK constraints.
C2_ScoresInRange ==
    pc = "done" =>
        /\ result.manipulationScore \in 0..100
        /\ result.trustScore \in 0..100
        /\ ImageAnalysesCheck(InsertRow(result))

\* a weighted score above 100 is returned as 100
C2_Witness ==
    /\ pc = "done"
    /\ ExactSum100 > 10050
    /\ result.manipulationScore = 100

\* C3: the score before clamping is the single rounding of the whole weighted
\* sum 0.25*severity + 0.2*(100 - lighting) + 0.35*confidence + 5*flags
\* + 0.2*(100 - semantic); it is an integer nearest to the exact sum, and the
\* returned manipulationScore is that value clamped to [0, 100].
C3_WeightedSum ==
    pc = "done" =>
        /\ manipulationScore(pixelAnomalies, lightingShadows, aiArtifacts,
                             metadata, semanticLogic) = RoundedSum
        /\ 100 * RoundedSum - 50 <= ExactSum100
        /\ ExactSum100 <= 100 * RoundedSum + 50
        /\ result.manipulationScore = Min(100, Max(0, RoundedSum))

\* a sum whose exact value ends in .5, returned as the integer below it
C3_Witness ==
    /\ pc = "done"
    /\ ExactSum100 % 100 = 50
    /\ ExactSum100 < 10000
    /\ result.manipulationScore = ExactSum100 \div 100

\* C4: the returned trustScore is max(0, 100 - m), m being the rounded
\* weighted manipulation score before it is clamped.
C4_TrustScore ==
    pc = "done" =>
        result.trustScore = Max(0, 100 - RoundedSum)

\* a score above 100 (trust 0) was returned
C4_Witness ==
    /\ pc = "done"
    /\ RoundedSum > 100
    /\ result.trustScore = 0
    /\ result.resultType = "ai_generated"

RuleOrder == <<"Invalid MIME type", "Suspiciously small file size",
               "Unusually large file size", "Missing modification timestamp",
               "Screenshot detected", "AI-related filename">>

Triggers(m, f) ==
    CASE m = "Invalid MIME type" ->
            /\ Len(f.type) > 0
            /\ ~(Len(f.type) >= 6 /\ SubSeq(f.type, 1, 6) = S_imagePrefix)
      [] m = "Suspiciously small file size" -> f.size < 1000
      [] m = "Unusually large file size" -> f.size > 52428800
      [] m = "Missing modification timestamp" -> f.lastModified = 0
      [] m = "Screenshot detected" ->
            \/ Contains(toLowerCase(f.name), S_screenshot)
            \/ Contains(toLowerCase(f.name), S_screen_shot)
      [] m = "AI-related filename" ->
            \E w \in {S_ai, S_generated, S_midjourney, S_dalle} :
                Contains(toLowerCase(f.name), w)

\* C5: the flags list is exactly the messages of the rules that trigger, each
\* at most once and in the fixed rule order; text/plain always has the MIME
\* flag, an empty type never; authentic holds iff the list is empty.
C5_FlagsInRuleOrder ==
    pc = "semantic" =>
        /\ metadata.flags = SelectSeq(RuleOrder, LAMBDA m : Triggers(m, file))
        /\ file.type = T_plain => Has(metadata.flags, "Invalid MIME type")
        /\ file.type = T_empty => ~Has(metadata.flags, "Invalid MIME type")
        /\ metadata.authentic <=> metadata.flags = <<>>

\* a text/plain file on which five rules trigger
C5_Witness ==
    /\ pc = "semantic"
    /\ file.type = T_plain
    /\ Len(metadata.flags) = 5
    /\ metadata.flags[1] = "Invalid MIME type"
    /\ ~metadata.authentic

\* C6: the small-size flag is present iff size < 1000, the large-size flag
\* iff size > 52428800; sizes 1000 and 52428800 give neither, the two never
\* occur together, and size 0 gives the small-size flag and authentic false.
C6_SizeThresholds ==
    pc = "semantic" =>
        LET small == Has(metadata.flags, "Suspiciously small file size")
            large == Has(metadata.flags, "Unusually large file size")
        IN  /\ small <=> file.size < 1000
            /\ large <=> file.size > 52428800
            /\ file.size \in {1000, 52428800} => ~small /\ ~large
            /\ ~(small /\ large)
            /\ file.size = 0 => small /\ ~metadata.authentic

\* a file of exactly 52428800 bytes analysed with no flag at all
C6_Witness ==
    /\ pc = "semantic"
    /\ file.size = 52428800
    /\ metadata.authentic

\* C7: the AI flag is present iff the lower-cased name contains ai, generated,
\* midjourney or dalle; the screenshot flag iff it contains screenshot or
\* screen shot; midjourney_output.png of 2000000 bytes has the AI flag and
\* is not authentic.
C7_FilenameRules ==
    pc = "semantic" =>
        LET name == toLowerCase(file.name)
        IN  /\ Has(metadata.flags, "AI-related filename") <=>
                  \/ Contains(name, S_ai)
                  \/ Contains(name, S_generated)
                  \/ Contains(name, S_midjourney)
                  \/ Contains(name, S_dalle)
            /\ Has(metadata.flags, "Screenshot detected") <=>
                  Contains(name, S_screenshot) \/ Contains(name, S_screen_shot)
            /\ file.name = N_midjourney /\ file.size = 2000000 =>
                  /\ Has(metadata.flags, "AI-related filename")
                  /\ ~metadata.authentic

\* midjourney_output.png of 2000000 bytes, flagged for its name alone
C7_Witness ==
    /\ pc = "semantic"
    /\ file.name = N_midjourney
    /\ file.size = 2000000
    /\ metadata.flags = <<"AI-related filename">>

C9_DetectorRanges ==
    /\ pc \in {"lighting", "ai", "metadata", "semantic", "join", "done"}
          => pixelAnomalies.severity \in 0..100
    /\ pc \in {"ai", "metadata", "semantic", "join", "done"}
          => lightingShadows.score \in 0..100
    /\ pc \in {"metadata", "semantic", "join", "done"}
          => aiArtifacts.confidence \in 0..100
    /\ pc \in {"join", "done"}
          => semanticLogic.score \in 0..100

\* an analysis in which the extremes 100 and 0 are reported
C9_Witness ==
    /\ pc = "done"
    /\ pixelAnomalies.severity = 100
    /\ lightingShadows.score = 0
    /\ aiArtifacts.confidence = 0

\* C10: the heatmap has min(8, floor((severity + confidence) / 20)) regions,
\* never more than 8, and none exactly when severity + confidence < 20.
C10_RegionCount ==
    pc = "done" =>
        LET sum == pixelAnomalies.severity + aiArtifacts.confidence
            n   == Len(result.heatmapData.regions)
        IN  /\ n = Min(8, sum \div 20)
            /\ n <= 8
            /\ n = 0 <=> sum < 20

\* severity + confidence of 180 or more, capped at 8 regions
C10_Witness ==
    /\ pc = "done"
    /\ pixelAnomalies.severity + aiArtifacts.confidence >= 180
    /\ Len(result.heatmapData.regions) = 8

\* x < y for doubles x, y
NumLess(x, y) == x.m < y.m \/ (x.m = y.m /\ x.d < y.d)

\* lo <= x < hi
InHalfOpen(x, lo, hi) == ~NumLess(x, lo) /\ NumLess(x, hi)

\* C11: every heatmap region has x and y in [0, 0.8), width and height in
\* [0.1, 0.25) and intensity in [0.3, 1.0), so every one of them is in [0, 1].
C11_RegionRanges ==
    pc = "done" =>
        \A i \in 1..Len(result.heatmapData.regions) :
            LET r == result.heatmapData.regions[i]
            IN  /\ InHalfOpen(r.x, FInt(0), C_08)
                /\ InHalfOpen(r.y, FInt(0), C_08)
                /\ InHalfOpen(r.width, C_01, C_025)
                /\ InHalfOpen(r.height, C_01, C_025)
                /\ InHalfOpen(r.intensity, C_03, FInt(1))
                /\ \A v \in {r.x, r.y, r.width, r.height, r.intensity} :
                       ~NumLess(v, FInt(0)) /\ ~NumLess(FInt(1), v)

\* regions drawn with the largest value Math.random() can return
C11_Witness ==
    /\ pc = "done"
    /\ Len(result.heatmapData.regions) >= 2
    /\ \E v \in RandomVectors :
          /\ \A k \in 1..5 : v[k] = [m |-> 1000, d |-> -2560000]
          /\ result.heatmapData.regions[1] = Region(v)
    /\ result.heatmapData.regions[2].x.m = 800

\* every pixel of img has the same gray value
UniformGray(img) ==
    \E g \in 0..255 :
        \A p \in 0..((Len(img.data) \div 4) - 1) :
            /\ At(img.data, 4 * p) = g
            /\ At(img.data, 4 * p + 1) = g
            /\ At(img.data, 4 * p + 2) = g

\* C12: for an image whose pixels all have the same gray value, the lighting
\* detector returns score 100 and consistent = true.
C12_UniformGrayLighting ==
    (pc = "ai" /\ UniformGray(imageData)) =>
        /\ lightingShadows.score = 100
        /\ lightingShadows.consistent

\* a mid-gray image of several pixels, analysed
C12_Witness ==
    /\ pc = "ai"
    /\ UniformGray(imageData)
    /\ At(imageData.data, 0) = 128
    /\ imageData.width >= 2 /\ imageData.height >= 2
    /\ lightingShadows.score = 100

ZeroArea(f) ==
    /\ f.content # <<>>
    /\ f.content[1].width = 0 \/ f.content[1].height = 0

\* C15: a call whose image decodes to zero width or zero height fails with
\* an error before any detector runs.
C15_DegenerateFailsFast ==
    (pc \notin {"call", "fetch"} /\ ZeroArea(file)) => pc = "rejected"

\* C16: on a decoded buffer of at least one pixel every index the detectors
\* can sample is a pixel offset inside the buffer, and every neighbour
\* average has a denominator other than zero.
C16_DetectorsDefined ==
    pc \in {"lighting", "ai", "metadata", "semantic", "join", "done"} =>
        /\ \A i \in PixelIndexes(imageData) :
              /\ i >= 0 /\ i + 2 < Len(imageData.data)
              /\ getNeighborAverage(imageData.data, i, imageData.width).r # NaN
        /\ \A y \in Rows(imageData) :
              /\ (y * imageData.width) * 4 >= 0
              /\ (y * imageData.width + imageData.width - 1) * 4 + 2
                     < Len(imageData.data)

\* the file at position i of the App's list cannot be decoded
Undecodable(i) == app.files[i].content = <<>>

C17_DecodeFailure ==
    /\ pc = "rejected" => result = None
    /\ \A k \in 1..Len(app.rows) : ~Undecodable(app.rows[k].file)
    /\ \A t \in app.tasks : ~Undecodable(t.file)
    /\ (/\ app.pc = "returned"
        /\ Undecodable(app.index)
        /\ app.atStart.tasks = {})
          => /\ app.error = <<AnalysisFailed>>
             /\ ~app.isAnalyzing
             /\ app.currentAnalysis = app.atStart.currentAnalysis
             /\ app.currentImageUrl = app.atStart.currentImageUrl
             /\ app.rows = app.atStart.rows

\* an undecodable file handled while an earlier analysis is on display
C17_Witness ==
    /\ app.pc = "returned"
    /\ Undecodable(app.index)
    /\ app.atStart.tasks = {}
    /\ app.currentAnalysis # <<>>
    /\ app.currentImageUrl = <<1>>
    /\ app.error = <<AnalysisFailed>>

\* the offsets of the up, down, left and right neighbours of the pixel at
\* offset index that lie inside the width x height grid
GridNeighbours(img, index) ==
    LET x == (index \div 4) % img.width
        y == (index \div 4) \div img.width
    IN  {4 * (ny * img.width + nx) :
            <<nx, ny>> \in {c \in {<<x, y - 1>>, <<x, y + 1>>, <<x - 1, y>>, <<x + 1, y>>} :
                               /\ c[1] >= 0 /\ c[1] < img.width
                               /\ c[2] >= 0 /\ c[2] < img.height}}

\* C18: for every pixel that can be sampled, the neighbours averaged are
\* exactly its up, down, left and right neighbours inside the grid, each
\* once, and the denominator is their number.
C18_GridNeighbourAverage ==
    pc \in {"lighting", "ai", "metadata", "semantic", "join", "done"} =>
        \A i \in PixelIndexes(imageData) :
            LET nb == Neighbors(imageData.data, i, imageData.width)
            IN  /\ {nb[k] : k \in 1..Len(nb)} = GridNeighbours(imageData, i)
                /\ Len(nb) = Cardinality(GridNeighbours(imageData, i))

\* x / y rounded to the nearest integer, a half rounded up, for x >= 0, y > 0
RoundDiv(x, y) == (2 * x + y) \div (2 * y)

\* C19: the reported severity is round(100 * anomalousCount / 1000), and for
\* every anomalousCount in 0..1000 detected is true exactly when the reported
\* severity is greater than 15.
C19_SeverityAndFlag ==
    (pc = "done" /\ pixelAnomalies # None) =>
        /\ pixelAnomalies.severity = RoundDiv(100 * counts.anomalyCount, sampleSize)
        /\ pixelAnomalies.detected <=> pixelAnomalies.severity > 15

\* C20: the reported confidence is round(0.3 * symmetryPercent +
\* 0.7 * smoothnessPercent) with the percentages 100 * symmetricCount / 50 and
\* 100 * smoothCount / 1000, and for every pair of counts detected is true
\* exactly when the reported confidence is greater than 60.
C20_ConfidenceAndFlag ==
    (pc = "done" /\ aiArtifacts # None) =>
        /\ aiArtifacts.confidence =
              RoundDiv(3 * 100 * counts.symmetryScore * smoothSamples
                         + 7 * 100 * counts.smoothnessScore * sampleRows,
                       10 * sampleRows * smoothSamples)
        /\ aiArtifacts.detected <=> aiArtifacts.confidence > 60

\* C21: the reported score is min(100, round(100 * distinctCount / 250)), and
\* for every distinctCount in 0..250 logical is true exactly when the reported
\* score is greater than 30.
C21_ScoreAndFlag ==
    (pc = "done" /\ semanticLogic # None /\ counts # None) =>
        /\ semanticLogic.score = Min(100, RoundDiv(100 * counts.size, maxColors))
        /\ semanticLogic.logical <=> semanticLogic.score > 30

\* the file whose data URL is held in currentImageUrl, and the file whose
\* analysis is held in currentAnalysis
DisplayedImage == app.files[app.currentImageUrl[1]]
DisplayedAnalysis == app.files[app.currentAnalysis[1].file]

\* C22: whenever an analysis is displayed (currentAnalysis and
\* currentImageUrl both set), currentImageUrl is the data URL of the file
\* from which currentAnalysis was computed, in every interleaving of file
\* reads and database inserts.
C22_ImageMatchesAnalysis ==
    (app # None /\ app.currentAnalysis # <<>> /\ app.currentImageUrl # <<>>) =>
        DisplayedImage = DisplayedAnalysis

\* C23: isAnalyzing stays true from the start of an analysis until its
\* outcome is visible: in no state is an analysis that was computed still
\* being read or saved while isAnalyzing is false.
C23_AnalyzingUntilVisible ==
    (app # None /\ app.tasks # {}) => app.isAnalyzing

\* C24: for every combination of detector outputs the returned
\* manipulationScore and trustScore sum to exactly 100: the weighted sum is
\* never negative, and when it exceeds 100 the pair is 100 and 0.
C24_ScoresSumTo100 ==
    pc = "done" =>
        LET m == manipulationScore(pixelAnomalies, lightingShadows, aiArtifacts,
                                   metadata, semanticLogic)
        IN  /\ m >= 0
            /\ result.manipulationScore + result.trustScore = 100
            /\ m > 100 => (result.manipulationScore = 100 /\ result.trustScore = 0)

\* a weighted sum of more than 100 was returned as the pair 100 and 0
C24_Witness ==
    /\ pc = "done"
    /\ manipulationScore(pixelAnomalies, lightingShadows, aiArtifacts,
                         metadata, semanticLogic) > 100
    /\ result.manipulationScore = 100
    /\ result.trustScore = 0
    /\ Len(metadata.flags) > 0

\* every pixel of the image has the colour of its first pixel
UniformColour(img) ==
    \A i \in PixelIndexes(img) :
        \A off \in 0..2 : At(img.data, i + off) = At(img.data, off)

\* C25: for every image of at least two pixels that all have the same colour,
\* and every outcome of the sampling, the result has severity 0, confidence
\* 100 with detected, type ai_generated, and manipulationScore
\* min(100, 55 + 5 * number of metadata flags).
C25_UniformImage ==
    (pc = "done" /\ imageData # None /\ Len(imageData.data) >= 8
                 /\ UniformColour(imageData)) =>
        /\ result.detectionDetails.pixelAnomalies.severity = 0
        /\ result.detectionDetails.aiArtifacts.confidence = 100
        /\ result.detectionDetails.aiArtifacts.detected
        /\ result.resultType = "ai_generated"
        /\ result.manipulationScore = Min(100, 55 + 5 * Len(metadata.flags))

\* a white image of two pixels in a file that raises flags, analysed
C25_Witness ==
    /\ pc = "done"
    /\ imageData # None
    /\ Len(imageData.data) = 8
    /\ UniformColour(imageData)
    /\ At(imageData.data, 0) = 255
    /\ Len(metadata.flags) > 0
    /\ result.manipulationScore = 55 + 5 * Len(metadata.flags)

\* the percentage quoted in the explanation of an ai_generated result
QuotedScore(res) == res.explanation[Len(res.explanation) - 1]

\* C26: when resultType is ai_generated, the manipulation score quoted in the
\* explanation equals the manipulationScore field of the same result.
C26_QuotedScore ==
    (pc = "done" /\ result.resultType = "ai_generated") =>
        QuotedScore(result) = ToString(result.manipulationScore)

\* C27: every heatmap region lies entirely inside the image: x + width <= 1
\* and y + height <= 1.
C27_RegionsInsideImage ==
    pc = "done" =>
        \A i \in 1..Len(result.heatmapData.regions) :
            LET r == result.heatmapData.regions[i]
            IN  /\ ~NumLess(FInt(1), FAdd(r.x, r.width))
                /\ ~NumLess(FInt(1), FAdd(r.y, r.height))

\* C28: whenever detectAIArtifacts reports confidence > 70 it also reports
\* detected, so the resultType of analyzeImage is ai_generated exactly when the
\* confidence is above 70, whatever the manipulation score.
C28_ConfidenceDecides ==
    (pc = "done" /\ aiArtifacts # None /\ counts # None) =>
        /\ aiArtifacts.confidence > 70 => aiArtifacts.detected
        /\ \A score \in {0, 50, 51, 100, 125} :
              (resultTypeOf(aiArtifacts, score) = "ai_generated")
                 <=> aiArtifacts.confidence > 70

\* the smallest confidence above 70, reported with detected
C28_Witness ==
    /\ pc = "done"
    /\ aiArtifacts # None
    /\ counts # None
    /\ aiArtifacts.confidence = 71
    /\ aiArtifacts.detected
    /\ resultTypeOf(aiArtifacts, 0) = "ai_generated"

\* C29: for every image of at most 750 pixels, whatever its colours, the scan
\* visits at most 75 pixels and the result has score <= 30 and logical =
\* false; logical = true is possible from 751 pixels on.
C29_SmallImagesNotLogical ==
    (pc = "join" /\ imageData # None /\ Len(imageData.data) <= 4 * 750) =>
        /\ Cardinality(Scanned(imageData.data)) <= 75
        /\ semanticLogic.score <= 30
        /\ ~semanticLogic.logical

\* an image of 751 pixels for which logical = true is returned
C29_Witness ==
    /\ pc = "join"
    /\ imageData # None
    /\ Len(imageData.data) = 4 * 751
    /\ Cardinality(Scanned(imageData.data)) = 76
    /\ semanticLogic.logical

====
